---- MODULE Spec2Model ----
(***************************************************************************)
(* Reinhardt_Monitor: the polling engine of core/service/polling_service.py *)
(* (class PollingService) as a state machine.                              *)
(*                                                                         *)
(* One asyncio event loop runs the coroutines of the service.  A step of   *)
(* the model is what one coroutine does between two suspension points      *)
(* (await of a gather, of wait_for, of open_connection, of readuntil, of   *)
(* wait_closed), so every action is atomic exactly where the code is.      *)
(* Which ready coroutine runs next, and when the network completes a       *)
(* connect, a read or a close, is not decided by the code: both are        *)
(* nondeterministic.  Time passes (Tick) only when no coroutine is ready.  *)
(* The coroutines of the interface run in the loop's thread; the setter of *)
(* polling_interval is a plain method and is called from either thread.    *)
(*                                                                         *)
(* What poll_device computes from a frame it has read (the extraction of   *)
(* the values, the threshold check, what it emits) is a function of the    *)
(* frame and of the rows of the tables; it is modelled by operators, which *)
(* the specification SpecEval applies to every input of a bounded set.     *)
(*                                                                         *)
(* The Application of run.py runs the service in a thread of its own, one  *)
(* thread and one event loop per start, and stops it through an event      *)
(* shared by all of them; the specification SpecApp drives the service     *)
(* through run_polling_service() and stop_polling_service() only.          *)
(***************************************************************************)
EXTENDS Integers, FiniteSets, Sequences, TLC

\* ------------------------------------------------------------------ bounds
MaxCalls == 3       \* calls of the public interface in one run of the model
MaxRounds == 2      \* poll rounds started in one run of the model, all loops together
NumDevices == 2     \* rows of the device table
MaxInterval == 2    \* largest polling interval tried (seconds)
NumParams == 2      \* rows of the parameter table
MaxRules == 3       \* longest list of device.thresholds tried
MaxValue == 4       \* values 0..MaxValue are given to check_thresholds
MaxFrameLen == 6    \* longest frame tried (characters)

Loops == 1..MaxRounds           \* every run() that enters the loop starts a round
Procs == 0..MaxRounds           \* 0: an external caller of stop_polling()
Devices == 1..NumDevices
Tasks == Loops \X Devices       \* <<k, d>>: poll_device(d) created by loop k
IntervalInputs == -1..MaxInterval  \* values given to the setter
Threads == {"loop", "other"}    \* a caller in the thread of the event loop, or in another

Max(a, b) == IF a >= b THEN a ELSE b
Min(a, b) == IF a <= b THEN a ELSE b

VARIABLES
    polling_interval,   \* self._polling_interval
    is_running,         \* self._is_running
    polling_event,      \* self._polling_event: 0 = attribute absent, k = Event made by run() k
    ev,                 \* ev[k]: the flag of the Event object made by run() k
    active_tasks,       \* self.active_tasks
    enabled,            \* Device.is_enable of every row of the device table
    pc,                 \* where every coroutine is suspended
    elapsed,            \* elapsed[k]: seconds since start_time of loop k's round
    timer,              \* timer[k]: seconds left of loop k's wait_for timeout
    sleep_time,         \* sleep_time[k]: the timeout loop k gave to that wait_for
    waitEv,             \* waitEv[k]: the Event object loop k's wait_for waits on
    woken,              \* woken[k]: the wait() of loop k was released: "no", "yes", or
                        \* "late" (released from another thread, the loop not woken up)
    wait,               \* wait[p]: children of the gather p awaits, not yet done
    gexc,               \* gexc[p]: a child of p's gather ended cancelled
    cancelReq,          \* cancelReq[k]: main_task.cancel() not yet delivered
    exc,                \* exc[k]: run() re-raises after its finally block
    result,             \* result[k]: how the coroutine of loop k ended
    calls,              \* calls of the public interface so far
    rounds,             \* poll rounds started so far, all loops together
    task,               \* task[t]: the poll_device task t
    last,               \* the call of the public interface made in the last step, if any
    stopCtx,            \* what the external stop_polling() call found
    stopReq,            \* stop_polling() was called from outside and no start since
    sw,                 \* stopwatch of a sleep that the setter interrupted
    lookup,             \* the get_active_devices() call made in the last step, if any
    job,                \* the frame data in hand: inputs of the processing of a
                        \* frame and, once done, what it produced
    app                 \* the Application of run.py around the service: its flag,
                        \* its stop event, its polling threads, its callers

engineVars == <<polling_interval, is_running, polling_event, ev, active_tasks, enabled,
          pc, elapsed, timer, sleep_time, waitEv, woken, wait, gexc, cancelReq, exc, result,
          rounds, calls, task, last, stopCtx, stopReq, sw, lookup>>

serviceVars == <<engineVars, app>>

vars == <<serviceVars, job>>

svc == <<polling_interval, is_running, polling_event, ev, active_tasks>>

InitTask == [st |-> "none", cancel |-> FALSE, cx |-> FALSE, conn |-> "none",
             conns |-> 0, saved |-> FALSE]

NewTask == [InitTask EXCEPT !.st = "new"]

NoCall == [op |-> "none", arg |-> 0, res |-> "none"]
NoCtx == [running |-> FALSE, readers |-> {}, loops |-> {}, alive |-> {}]
SwOff == [st |-> "off", k |-> 0, iv |-> 0, rem |-> 0, t |-> 0]
NoLookup == [k |-> 0, res |-> "none"]
NoJob == [op |-> "none"]

\* Application.__init__: no polling thread, the flag False, the stop event
\* clear and not yet bound to an event loop.  thread[i] is the i-th
\* PollingServiceThread, whose main_task is the coroutine of loop i;
\* caller[c] is the thread a stop_polling_service() call is joining, or 0.
Callers == 1..2
NewApp == [is_polling_active |-> FALSE,
           stop_event |-> [value |-> FALSE, loop |-> 0],
           polling_thread |-> 0,
           thread |-> [i \in Loops |-> [st |-> "none", stop_task |-> "none"]],
           caller |-> [c \in Callers |-> 0]]

InitService ==
    /\ polling_interval = MaxInterval
    /\ is_running = FALSE
    /\ polling_event = 0
    /\ ev = [k \in Loops |-> FALSE]
    /\ active_tasks = {}
    /\ enabled \in [Devices -> BOOLEAN]
    /\ pc = [p \in Procs |-> "idle"]
    /\ elapsed = [k \in Loops |-> 0]
    /\ timer = [k \in Loops |-> 0]
    /\ sleep_time = [k \in Loops |-> 0]
    /\ waitEv = [k \in Loops |-> 0]
    /\ woken = [k \in Loops |-> "no"]
    /\ wait = [p \in Procs |-> {}]
    /\ gexc = [p \in Procs |-> FALSE]
    /\ cancelReq = [k \in Loops |-> FALSE]
    /\ exc = [k \in Loops |-> FALSE]
    /\ result = [k \in Loops |-> "none"]
    /\ rounds = 0
    /\ calls = 0
    /\ task = [t \in Tasks |-> InitTask]
    /\ last = NoCall
    /\ stopCtx = NoCtx
    /\ stopReq = FALSE
    /\ sw = SwOff
    /\ lookup = NoLookup
    /\ app = NewApp

Init == InitService /\ job = NoJob

\* ------------------------------------------------- the state as one record
St == [run |-> is_running, pe |-> polling_event, ev |-> ev, act |-> active_tasks,
       iv |-> polling_interval, pc |-> pc, el |-> elapsed, tm |-> timer,
       slp |-> sleep_time,
       wev |-> waitEv, wok |-> woken, wait |-> wait, gexc |-> gexc,
       creq |-> cancelReq, exc |-> exc, res |-> result, rnd |-> rounds,
       task |-> task, sreq |-> stopReq,
       sw |-> IF sw.st = "started" THEN SwOff ELSE sw,
       lk |-> NoLookup,
       ret |-> "pending"]

SetAll(s, a) ==
    /\ is_running' = s.run
    /\ polling_event' = s.pe
    /\ ev' = s.ev
    /\ active_tasks' = s.act
    /\ polling_interval' = s.iv
    /\ pc' = s.pc
    /\ elapsed' = s.el
    /\ timer' = s.tm
    /\ sleep_time' = s.slp
    /\ waitEv' = s.wev
    /\ woken' = s.wok
    /\ wait' = s.wait
    /\ gexc' = s.gexc
    /\ cancelReq' = s.creq
    /\ exc' = s.exc
    /\ result' = s.res
    /\ rounds' = s.rnd
    /\ task' = s.task
    /\ stopReq' = s.sreq
    /\ sw' = s.sw
    /\ lookup' = s.lk
    /\ job' = job
    /\ app' = a

\* The step of a coroutine of the service: the Application is not touched.
Set(s) == SetAll(s, app)

\* What the step shows of the interface: the call it made (if any), and what
\* a pending external stop_polling() found when it was called.
Shown(op, arg, res) ==
    /\ last' = [op |-> op, arg |-> arg, res |-> res]
    /\ stopCtx' = IF pc[0] = "stop_gather" THEN stopCtx ELSE NoCtx

Called(op, arg, res) ==
    /\ calls < MaxCalls
    /\ calls' = calls + 1
    /\ Shown(op, arg, res)

Internal ==
    /\ calls' = calls
    /\ Shown("none", 0, "none")

Finished(s, t) == s.task[t].st \in {"done", "failed", "cancelled"}
Live(s, t) == s.task[t].st \in {"new", "connecting", "reading", "closing"}

\* The attempt on device d in loop k's round has called save_device_data, the
\* one place where poll_device hands a device's data on.
Emitted(k, d) == task[<<k, d>>].saved

\* The gather of loop k's round has every child ended.
RoundComplete(k) == pc[k] = "round" /\ wait[k] = {}

\* A loop that is still inside the try block of run()/start_polling().
InLoop(k) == pc[k] \in {"round", "sleep"}
LoopAlive(k) == pc[k] \in {"round", "sleep", "stop_gather"}

\* ------------------------------------------------------------- directory
\* A directory that forgets the is_enable filter.
AllDevices == Devices

\* get_active_devices(): the rows with is_enable == True.
ActiveDevices == {d \in Devices : enabled[d]}

\* ------------------------------------------------------ pieces of the code
\* task.cancel() for every task of T that is not done.
CancelTasks(s, T) ==
    [s EXCEPT !.task = [t \in Tasks |->
        IF t \in T /\ Live(s, t) THEN [s.task[t] EXCEPT !.cancel = TRUE]
        ELSE s.task[t]]]

\* Event.set() on the service's event.  If the flag is clear it is set and
\* every wait() pending on that Event object is released (a later clear()
\* does not take that back).  asyncio.Event is not thread-safe: called from
\* another thread, the release is queued without waking the event loop up,
\* which sees it when it next wakes up by itself.
SetEvent(s, thr) ==
    IF s.ev[s.pe] THEN s
    ELSE [s EXCEPT !.ev[s.pe] = TRUE,
                   !.wok = [k \in Loops |->
                       IF s.pc[k] = "sleep" /\ s.wev[k] = s.pe /\ s.wok[k] = "no"
                       THEN (IF thr = "loop" THEN "yes" ELSE "late")
                       ELSE s.wok[k]]]

\* The coroutine of p ends: it returns, or raises what is pending.
Return(s, p) ==
    IF p = 0 THEN [s EXCEPT !.pc[p] = "idle", !.ret = "returned"]
    ELSE [s EXCEPT !.pc[p] = "done", !.exc[p] = FALSE,
                   !.res[p] = IF s.exc[p] THEN "raised" ELSE "returned"]

Raise(s, p) ==
    IF p = 0 THEN [s EXCEPT !.pc[p] = "idle", !.ret = "raised"]
    ELSE [s EXCEPT !.pc[p] = "done", !.exc[p] = FALSE, !.res[p] = "raised"]

\* stop_polling() up to its first suspension.  self._polling_task is never
\* assigned, so the last block of the method does nothing.
StopBody(s, p) ==
    LET s1 == [s EXCEPT !.run = FALSE] IN
    IF s1.pe = 0 THEN Raise(s1, p)              \* AttributeError: no _polling_event
    ELSE LET s2 == CancelTasks(SetEvent(s1, "loop"), s1.act) IN
         IF s2.act # {}
         THEN [s2 EXCEPT !.pc[p] = "stop_gather",
                         !.wait[p] = {t \in s2.act : ~Finished(s2, t)},
                         !.gexc[p] = \E t \in s2.act : s2.task[t].st = "cancelled"]
         ELSE Return(s2, p)

\* The finally block of run()/start_polling(); e: an exception is re-raised.
Finally(s, k, e) ==
    StopBody([s EXCEPT !.run = FALSE, !.exc[k] = e, !.creq[k] = FALSE,
                       !.el[k] = 0, !.tm[k] = 0, !.slp[k] = 0, !.wev[k] = 0,
                       !.wok[k] = "no",
                       !.sw = IF s.sw.k = k THEN SwOff ELSE s.sw], k)

\* A sleep_time without the clamp at zero.
SleepStartUnclamped(s, k) ==
    IF s.pe = 0 THEN Finally(s, k, TRUE)
    ELSE [s EXCEPT !.pc[k] = "sleep",
                   !.tm[k] = s.iv - s.el[k],
                   !.slp[k] = s.iv - s.el[k],
                   !.el[k] = 0,
                   !.wev[k] = s.pe,
                   !.wok[k] = IF s.ev[s.pe] /\ s.iv - s.el[k] > 0 THEN "yes" ELSE "no"]

\* elapsed, sleep_time and the wait_for on the event.
SleepStart(s, k) ==
    IF s.pe = 0 THEN Finally(s, k, TRUE)        \* AttributeError -> except Exception: raise
    ELSE [s EXCEPT !.pc[k] = "sleep",
                   !.tm[k] = Max(0, s.iv - s.el[k]),
                   !.slp[k] = Max(0, s.iv - s.el[k]),
                   !.el[k] = 0,
                   !.wev[k] = s.pe,
                   !.wok[k] = IF s.ev[s.pe] /\ s.iv - s.el[k] > 0 THEN "yes" ELSE "no"]

\* start_time = now; poll_all_devices() up to its gather.
RoundStart(s, k, dbok) ==
    LET s0 == [s EXCEPT !.el[k] = 0, !.tm[k] = 0, !.slp[k] = 0, !.wev[k] = 0,
                        !.wok[k] = "no",
                        !.rnd = @ + 1,
                        !.lk = [k |-> k, res |-> IF dbok THEN "ok" ELSE "failed"],
                        !.sw = IF s.sw.st = "armed" /\ s.sw.k = k
                               THEN [s.sw EXCEPT !.st = "started"] ELSE s.sw] IN
    IF ~dbok THEN Finally(s0, k, TRUE)          \* the query raises
    ELSE IF ActiveDevices = {}
         THEN SleepStart([s0 EXCEPT !.act = {}], k)
         ELSE [s0 EXCEPT
                 !.task = [t \in Tasks |->
                     IF t[1] = k
                     THEN (IF t[2] \in ActiveDevices THEN NewTask ELSE InitTask)
                     ELSE s0.task[t]],
                 !.act = s0.act \cup {<<k, d>> : d \in ActiveDevices},
                 !.wait[k] = {<<k, d>> : d \in ActiveDevices},
                 !.pc[k] = "round"]

\* while self._is_running:
LoopTop(s, k, dbok) ==
    IF s.run THEN RoundStart(s, k, dbok) ELSE Finally(s, k, FALSE)

\* The model follows a loop into its next round while rounds are left.
CanLoop(s) == ~s.run \/ s.rnd < MaxRounds

\* A task ends; the gathers that hold it see it.
Finish(s, t, cancelled) ==
    [s EXCEPT !.task[t].st = IF cancelled THEN "cancelled"
                             ELSE IF s.task[t].saved THEN "done" ELSE "failed",
              !.task[t].cancel = FALSE,
              !.wait = [p \in Procs |-> s.wait[p] \ {t}],
              !.gexc = [p \in Procs |->
                  s.gexc[p] \/ (cancelled /\ t \in s.wait[p] /\ s.pc[p] = "stop_gather")]]

\* ------------------------------------------------------------ the interface
FreeLoop(k) == pc[k] = "idle" /\ \A j \in Loops : j < k => pc[j] # "idle"

\* A run() without its guard on _is_running.
RunNoGuard ==
    /\ UNCHANGED enabled
    /\ Called("run", 0, "started")
    /\ \E k \in Loops, dbok \in BOOLEAN :
         /\ FreeLoop(k)
         /\ rounds < MaxRounds
         /\ Set(LoopTop([St EXCEPT !.run = TRUE, !.pe = k, !.ev[k] = FALSE,
                                    !.sreq = FALSE], k, dbok))

\* run(): lines 246-278 up to the first suspension.
Run ==
    /\ UNCHANGED enabled
    /\ IF is_running
       THEN /\ Called("run", 0, "noop")
            /\ Set([St EXCEPT !.sreq = FALSE])
       ELSE /\ Called("run", 0, "started")
            /\ \E k \in Loops, dbok \in BOOLEAN :
                 /\ FreeLoop(k)
                 /\ rounds < MaxRounds
                 /\ Set(LoopTop([St EXCEPT !.run = TRUE, !.pe = k, !.ev[k] = FALSE,
                                            !.sreq = FALSE], k, dbok))

\* start_polling(): lines 181-215; it clears the event it never creates.
StartPolling ==
    /\ UNCHANGED enabled
    /\ IF is_running
       THEN /\ Called("start_polling", 0, "noop")
            /\ Set([St EXCEPT !.sreq = FALSE])
       ELSE IF polling_event = 0
            THEN /\ Called("start_polling", 0, "raised")
                 /\ Set([St EXCEPT !.run = TRUE, !.sreq = FALSE])
            ELSE /\ Called("start_polling", 0, "started")
                 /\ \E k \in Loops, dbok \in BOOLEAN :
                      /\ FreeLoop(k)
                      /\ rounds < MaxRounds
                      /\ Set(LoopTop([St EXCEPT !.run = TRUE, !.sreq = FALSE,
                                                !.ev[polling_event] = FALSE], k, dbok))

\* stop_polling() called from outside the loop.
Stop ==
    /\ pc[0] = "idle"
    /\ UNCHANGED enabled
    /\ stopCtx' = [running |-> is_running,
                   readers |-> {t \in Tasks : task[t].st = "reading"},
                   loops |-> {k \in Loops : InLoop(k)},
                   alive |-> {k \in Loops : LoopAlive(k)}]
    /\ LET s == StopBody([St EXCEPT !.sreq = TRUE], 0) IN
         /\ calls < MaxCalls
         /\ calls' = calls + 1
         /\ last' = [op |-> "stop", arg |-> 0, res |-> s.ret]
         /\ Set(s)

\* The sleep the setter is about to interrupt, if there is one: the stopwatch
\* starts when the new interval is shorter than the stored one.
Interrupted(s, v) ==
    LET K == {k \in Loops : s.pc[k] = "sleep" /\ s.wev[k] = s.pe} IN
    IF K # {} /\ v < s.iv
    THEN LET k == CHOOSE j \in K : \A i \in K : j <= i IN
         [s EXCEPT !.sw = [st |-> "armed", k |-> k, iv |-> v, rem |-> s.tm[k], t |-> 0]]
    ELSE s

\* A setter that rejects only negative values.
SetIntervalLax(v) ==
    /\ UNCHANGED enabled
    /\ IF v < 0
       THEN /\ Called("set_interval", v, "rejected")
            /\ Set(St)
       ELSE IF polling_event = 0
            THEN /\ Called("set_interval", v, "raised")
                 /\ Set([St EXCEPT !.iv = v])
            ELSE /\ Called("set_interval", v, "ok")
                 /\ \E thr \in Threads :
                      Set(SetEvent([Interrupted(St, v) EXCEPT !.iv = v], thr))

\* The polling_interval setter: lines 39-45.
SetInterval(v) ==
    /\ UNCHANGED enabled
    /\ IF v <= 0
       THEN /\ Called("set_interval", v, "rejected")
            /\ Set(St)
       ELSE IF polling_event = 0
            THEN /\ Called("set_interval", v, "raised")
                 /\ Set([St EXCEPT !.iv = v])
            ELSE /\ Called("set_interval", v, "ok")
                 /\ \E thr \in Threads :
                      Set(SetEvent([Interrupted(St, v) EXCEPT !.iv = v], thr))

\* cleanup(): lines 280-286.
Cleanup ==
    /\ UNCHANGED enabled
    /\ Called("cleanup", 0, "ok")
    /\ Set([St EXCEPT !.run = FALSE, !.pe = 0])

\* main_task.cancel() of Application._run_async_polling.wait_for_stop: the
\* gather a cancelled coroutine awaits passes the request on to its children.
CancelMain(k) ==
    /\ LoopAlive(k)
    /\ ~cancelReq[k]
    /\ UNCHANGED enabled
    /\ Called("cancel", k, "ok")
    /\ Set(CancelTasks([St EXCEPT !.creq[k] = TRUE],
                       IF pc[k] = "sleep" THEN {} ELSE wait[k]))

\* ------------------------------------------------------------ scheduling
\* A coroutine is ready to run: the event loop runs it before a second passes.
Ready ==
    \/ \E t \in Tasks :
         \/ task[t].st = "new"
         \/ task[t].cancel /\ task[t].st \in {"connecting", "reading", "closing"}
    \/ \E k \in Loops :
         \/ pc[k] = "round" /\ wait[k] = {}
         \/ pc[k] = "sleep" /\ cancelReq[k]
         \/ pc[k] = "sleep" /\ (woken[k] = "yes" \/ timer[k] = 0)
    \/ \E p \in Procs : pc[p] = "stop_gather" /\ (gexc[p] \/ wait[p] = {})

\* --------------------------------------------------------- poll_device(d)
\* The task runs for the first time: it reaches open_connection, or it was
\* cancelled before it ever ran.
TaskStart(t) ==
    /\ task[t].st = "new"
    /\ UNCHANGED enabled
    /\ Internal
    /\ IF task[t].cancel
       THEN Set(Finish(St, t, TRUE))
       ELSE Set([St EXCEPT !.task[t].st = "connecting",
                           !.task[t].conns = @ + 1])

\* open_connection returns: the task goes on to the bounded read.
Connected(t) ==
    /\ task[t].st = "connecting" /\ ~task[t].cancel
    /\ UNCHANGED enabled
    /\ Internal
    /\ Set([St EXCEPT !.task[t].st = "reading", !.task[t].conn = "open"])

\* A poll_device that connects a second time when the first connect fails.
ConnectFailedRetry(t) ==
    /\ task[t].st = "connecting" /\ ~task[t].cancel
    /\ UNCHANGED enabled
    /\ Internal
    /\ IF task[t].conns < 2
       THEN Set([St EXCEPT !.task[t].conns = @ + 1])
       ELSE Set(Finish(St, t, FALSE))

\* open_connection raises: the outer except logs it and the task returns.
ConnectFailed(t) ==
    /\ task[t].st = "connecting" /\ ~task[t].cancel
    /\ UNCHANGED enabled
    /\ Internal
    /\ Set(Finish(St, t, FALSE))

\* The frame arrives: decode, check_thresholds, save_device_data, then the
\* finally block closes the writer and waits for wait_closed().
FrameRead(t) ==
    /\ task[t].st = "reading" /\ ~task[t].cancel
    /\ UNCHANGED enabled
    /\ Internal
    /\ Set([St EXCEPT !.task[t].st = "closing", !.task[t].conn = "closed",
                      !.task[t].saved = TRUE])

\* A poll_device without its except branches: the error of the read leaves
\* the task and the gather of the round, and run() re-raises it.
ReadFailedAborts(t) ==
    /\ task[t].st = "reading" /\ ~task[t].cancel
    /\ UNCHANGED enabled
    /\ Internal
    /\ Set(Finally(Finish([St EXCEPT !.task[t].conn = "closed"], t, FALSE), t[1], TRUE))

\* A poll_device that reads again whenever its read has timed out.
ReadFailedReadsAgain(t) ==
    /\ task[t].st = "reading" /\ ~task[t].cancel
    /\ UNCHANGED enabled
    /\ Internal
    /\ Set(St)

\* The read ends without a frame: wait_for raises TimeoutError after its
\* 5.0 seconds, or readuntil raises (the peer closed, the line is too long).
\* Either except branch only logs; the finally block closes the writer.
ReadFailed(t) ==
    /\ task[t].st = "reading" /\ ~task[t].cancel
    /\ UNCHANGED enabled
    /\ Internal
    /\ Set([St EXCEPT !.task[t].st = "closing", !.task[t].conn = "closed"])

\* wait_closed() returns: the task ends, cancelled if CancelledError is pending.
Closed(t) ==
    /\ task[t].st = "closing" /\ ~task[t].cancel
    /\ UNCHANGED enabled
    /\ Internal
    /\ Set(Finish(St, t, task[t].cx))

\* A poll_device without its finally block: cancelled in the read, the task
\* ends with the writer never closed.
TaskCancelledNoClose(t) ==
    /\ task[t].cancel
    /\ task[t].st \in {"connecting", "reading", "closing"}
    /\ UNCHANGED enabled
    /\ Internal
    /\ Set(Finish(St, t, TRUE))

\* A poll_device that catches the cancellation of the read like any other
\* error of the read and saves what it has before it closes.
TaskCancelledSaves(t) ==
    /\ task[t].cancel
    /\ task[t].st \in {"connecting", "reading", "closing"}
    /\ UNCHANGED enabled
    /\ Internal
    /\ IF task[t].st = "reading"
       THEN Set([St EXCEPT !.task[t].st = "closing", !.task[t].conn = "closed",
                           !.task[t].cancel = FALSE, !.task[t].cx = TRUE,
                           !.task[t].saved = TRUE])
       ELSE Set(Finish(St, t, TRUE))

\* CancelledError is thrown into the task where it is suspended.
TaskCancelled(t) ==
    /\ task[t].cancel
    /\ task[t].st \in {"connecting", "reading", "closing"}
    /\ UNCHANGED enabled
    /\ Internal
    /\ IF task[t].st = "reading"
       THEN Set([St EXCEPT !.task[t].st = "closing", !.task[t].conn = "closed",
                           !.task[t].cancel = FALSE, !.task[t].cx = TRUE])
       ELSE Set(Finish(St, t, TRUE))

\* ------------------------------------------------------- the round loop
\* The gather of poll_all_devices is done: every child has ended.
RoundDone(k) ==
    /\ pc[k] = "round" /\ wait[k] = {}
    /\ UNCHANGED enabled
    /\ Internal
    /\ IF cancelReq[k]
       THEN Set(Finally(St, k, FALSE))
       ELSE Set(SleepStart([St EXCEPT !.act = {},
                                      !.task = [t \in Tasks |->
                                          IF t[1] = k THEN InitTask ELSE @[t]]], k))

\* The event the loop waits on is set: clear self._polling_event, loop again.
SleepWake(k) ==
    /\ pc[k] = "sleep" /\ ~cancelReq[k] /\ woken[k] # "no"
    /\ UNCHANGED enabled
    /\ Internal
    /\ IF polling_event = 0
       THEN Set(Finally(St, k, TRUE))
       ELSE \E dbok \in BOOLEAN :
              LET s == [St EXCEPT !.ev[polling_event] = FALSE] IN
                CanLoop(s) /\ Set(LoopTop(s, k, dbok))

\* The timeout of wait_for expires.
SleepTimeout(k) ==
    /\ pc[k] = "sleep" /\ ~cancelReq[k] /\ timer[k] = 0 /\ woken[k] # "late"
    /\ UNCHANGED enabled
    /\ Internal
    /\ CanLoop(St)
    /\ \E dbok \in BOOLEAN : Set(LoopTop(St, k, dbok))

\* CancelledError reaches the loop in its sleep.
SleepCancelled(k) ==
    /\ pc[k] = "sleep" /\ cancelReq[k]
    /\ UNCHANGED enabled
    /\ Internal
    /\ Set(Finally(St, k, FALSE))

\* The gather of stop_polling is done: at the first child that ends
\* cancelled, or when all have ended.
StopGatherDone(p) ==
    /\ pc[p] = "stop_gather" /\ (gexc[p] \/ wait[p] = {})
    /\ UNCHANGED enabled
    /\ IF p = 0
       THEN /\ calls' = calls
            /\ last' = [op |-> "stop", arg |-> 0, res |-> "returned"]
            /\ stopCtx' = stopCtx
       ELSE Internal
    /\ Set(Return([St EXCEPT !.act = {}, !.wait[p] = {}, !.gexc[p] = FALSE,
                             !.creq = [k \in Loops |-> IF k = p THEN FALSE ELSE @[k]]], p))

\* ---------------------------------------------------------------- time
Timed ==
    \E k \in Loops : \/ pc[k] = "sleep" /\ timer[k] > 0
                     \/ pc[k] = "round" /\ elapsed[k] < MaxInterval

\* One second passes.
Tick ==
    /\ ~Ready /\ Timed
    /\ timer' = [k \in Loops |->
          IF pc[k] = "sleep" /\ timer[k] > 0 THEN timer[k] - 1 ELSE timer[k]]
    /\ elapsed' = [k \in Loops |->
          IF pc[k] = "round" THEN Min(elapsed[k] + 1, MaxInterval) ELSE elapsed[k]]
    /\ sw' = IF sw.st = "armed"
             THEN [sw EXCEPT !.t = Min(@ + 1, MaxInterval + 1)] ELSE SwOff
    /\ lookup' = NoLookup
    /\ job' = job
    /\ Internal
    /\ UNCHANGED <<polling_interval, is_running, polling_event, ev, active_tasks,
                   enabled, pc, sleep_time, waitEv, woken, wait, gexc, cancelReq,
                   exc, result, rounds, task, stopReq, app>>

Next ==
    \/ Run
    \/ StartPolling
    \/ Stop
    \/ \E v \in IntervalInputs : SetInterval(v)
    \/ Cleanup
    \/ \E k \in Loops : CancelMain(k)
    \/ \E t \in Tasks : TaskStart(t)
    \/ \E t \in Tasks : Connected(t)
    \/ \E t \in Tasks : ConnectFailed(t)
    \/ \E t \in Tasks : FrameRead(t)
    \/ \E t \in Tasks : ReadFailed(t)
    \/ \E t \in Tasks : Closed(t)
    \/ \E t \in Tasks : TaskCancelled(t)
    \/ \E k \in Loops : RoundDone(k)
    \/ \E k \in Loops : SleepWake(k)
    \/ \E k \in Loops : SleepTimeout(k)
    \/ \E k \in Loops : SleepCancelled(k)
    \/ \E p \in Procs : StopGatherDone(p)
    \/ Tick

Spec == Init /\ [][Next]_vars

\* ------------------------------------------------------------- progress
\* The timeout of wait_for at line 107, in seconds.
ReadTimeout == 5

\* The timeout that bounds the await a task is suspended in: the read is
\* inside wait_for(..., timeout=5.0); open_connection (line 102) and
\* writer.wait_closed() (line 144) are awaited as they are.
AwaitTimeout(st) == IF st = "reading" THEN <<ReadTimeout>> ELSE <<>>

\* What the event loop and the operating system do without the help of the
\* peer or of a caller.  A task that was created runs; open_connection ends,
\* connected or with an OSError; the read ends after its timeout at the
\* latest, whether a frame comes or not; with nothing written to it the
\* transport closes at the next iteration of the loop, so wait_closed()
\* returns; a cancellation is delivered; the gather of a round or of
\* stop_polling() returns when its children have ended; a loop whose wait
\* was released or has timed out goes on; time passes when no coroutine is
\* ready.  No frame is ever promised, and no call of run(), stop_polling()
\* or the setter.
Fairness ==
    /\ \A t \in Tasks :
         WF_vars(\/ TaskStart(t)
                 \/ Connected(t) \/ ConnectFailed(t)
                 \/ ReadFailed(t)
                 \/ Closed(t)
                 \/ TaskCancelled(t))
    /\ \A k \in Loops :
         WF_vars(\/ RoundDone(k)
                 \/ SleepWake(k) \/ SleepTimeout(k) \/ SleepCancelled(k)
                 \/ StopGatherDone(k))
    /\ WF_vars(StopGatherDone(0))
    /\ WF_vars(Tick)

\* The service with at most one device enabled in the table.
InitLive == Init /\ Cardinality({d \in Devices : enabled[d]}) <= 1

SpecLive == InitLive /\ [][Next]_vars /\ Fairness

\* ========================================================== run.py
\* The Application around the service.  run_polling_service() starts a
\* thread with an event loop of its own, in which main_task is the coroutine
\* of run() and stop_task waits for the stop event to cancel main_task;
\* stop_polling_service() sets the stop event and joins the thread for five
\* seconds at most.  The i-th thread runs loop i of the service.  The with
\* blocks on _polling_lock hold no suspension, so each is one step.

\* Thread.is_alive().
Alive(a, i) == a.thread[i].st \in {"created", "running"}

\* A run_polling_service() that leaves the stop event as it finds it.
RunPollingServiceNoClear ==
    /\ UNCHANGED <<engineVars, job>>
    /\ IF app.is_polling_active
       THEN app' = app
       ELSE \E i \in Loops :
              /\ app.thread[i].st = "none"
              /\ \A j \in Loops : j < i => app.thread[j].st # "none"
              /\ app' = [app EXCEPT !.thread[i] = [st |-> "created", stop_task |-> "new"],
                                    !.polling_thread = i,
                                    !.is_polling_active = TRUE]

\* run_polling_service(): lines 112-134.
RunPollingService ==
    /\ UNCHANGED <<engineVars, job>>
    /\ IF app.is_polling_active
       THEN app' = app
       ELSE \E i \in Loops :
              /\ app.thread[i].st = "none"
              /\ \A j \in Loops : j < i => app.thread[j].st # "none"
              /\ app' = [app EXCEPT !.stop_event.value = FALSE,
                                    !.thread[i] = [st |-> "created", stop_task |-> "new"],
                                    !.polling_thread = i,
                                    !.is_polling_active = TRUE]

\* _run_async_polling lines 139-143 and the first step of main_task, which
\* is run() up to its first suspension: it returns at its guard when
\* _is_running is set, and enters the loop otherwise.
ThreadMain(i) ==
    /\ app.thread[i].st = "created"
    /\ UNCHANGED enabled
    /\ Internal
    /\ LET a == [app EXCEPT !.thread[i].st = "running"] IN
       IF is_running
       THEN SetAll(Return(St, i), a)
       ELSE \E dbok \in BOOLEAN :
              /\ rounds < MaxRounds
              /\ SetAll(LoopTop([St EXCEPT !.run = TRUE, !.pe = i, !.ev[i] = FALSE,
                                           !.sreq = FALSE], i, dbok), a)

\* main_task.cancel(): nothing if the task is done.
MainCancel(s, i) ==
    IF s.pc[i] \in {"round", "sleep", "stop_gather"} /\ ~s.creq[i]
    THEN CancelTasks([s EXCEPT !.creq[i] = TRUE],
                     IF s.pc[i] = "sleep" THEN {} ELSE s.wait[i])
    ELSE s

\* The first step of stop_task (lines 146-150): _stop_event.wait().  An Event
\* that is set returns at once and main_task is cancelled.  One that is clear
\* binds itself to the running loop at its first wait and raises
\* RuntimeError in every other loop: the Event was made once, in
\* Application.__init__ (line 24), and every thread has a new loop (139).
WaitForStop(i) ==
    /\ app.thread[i].st = "running" /\ app.thread[i].stop_task = "new"
    /\ UNCHANGED enabled
    /\ Internal
    /\ IF app.stop_event.value
       THEN SetAll(MainCancel(St, i), [app EXCEPT !.thread[i].stop_task = "done"])
       ELSE IF app.stop_event.loop \notin {0, i}
            THEN SetAll(St, [app EXCEPT !.thread[i].stop_task = "failed"])
            ELSE SetAll(St, [app EXCEPT !.stop_event.loop = i,
                                        !.thread[i].stop_task = "waiting"])

\* _stop_event.set(), called from the thread of the caller: the waiters are
\* released, each loop sees it when it next wakes up.
SetStopEvent(a) ==
    IF a.stop_event.value THEN a
    ELSE [a EXCEPT !.stop_event.value = TRUE,
                   !.thread = [i \in Loops |->
                       IF a.thread[i].stop_task = "waiting"
                       THEN [a.thread[i] EXCEPT !.stop_task = "released"]
                       ELSE a.thread[i]]]

\* stop_polling_service() up to its join: lines 172-182.
StopPollingService(c) ==
    /\ app.caller[c] = 0
    /\ UNCHANGED <<engineVars, job>>
    /\ IF ~app.is_polling_active
       THEN app' = app
       ELSE app' = [SetStopEvent(app) EXCEPT !.caller[c] = app.polling_thread]

\* join(timeout=5.0) returns with the thread still alive: its loop has not
\* woken up to the released stop_task yet (it sleeps for the polling
\* interval, 15 seconds unless set otherwise, and a read waits for 5
\* seconds), or its stop_task has failed and main_task goes on.  The finally
\* block clears the flag: lines 182-191.
JoinTimesOut(c) ==
    /\ app.caller[c] # 0
    /\ app.thread[app.caller[c]].st = "running"
    /\ \/ app.thread[app.caller[c]].stop_task = "released"
       \/ app.thread[app.caller[c]].stop_task = "failed" /\ InLoop(app.caller[c])
    /\ UNCHANGED <<engineVars, job>>
    /\ app' = [app EXCEPT !.caller[c] = 0, !.is_polling_active = FALSE]

\* join returns because the thread has ended; the finally block clears the flag.
JoinReturns(c) ==
    /\ app.caller[c] # 0 /\ ~Alive(app, app.caller[c])
    /\ UNCHANGED <<engineVars, job>>
    /\ app' = [app EXCEPT !.caller[c] = 0, !.is_polling_active = FALSE]

\* The loop of the thread wakes up and stop_task goes on: main_task.cancel()
\* (line 148).
StopNoticed(i) ==
    /\ app.thread[i].st = "running" /\ app.thread[i].stop_task = "released"
    /\ UNCHANGED enabled
    /\ Internal
    /\ SetAll(MainCancel(St, i), [app EXCEPT !.thread[i].stop_task = "done"])

\* The gather of line 153 has both tasks ended: the finally block clears the
\* flag and closes the loop, the thread ends (lines 163-170).
ThreadEnd(i) ==
    /\ app.thread[i].st = "running"
    /\ pc[i] = "done"
    /\ app.thread[i].stop_task \in {"done", "failed"}
    /\ UNCHANGED <<engineVars, job>>
    /\ app' = [app EXCEPT !.thread[i].st = "ended", !.is_polling_active = FALSE]

NextApp ==
    \/ RunPollingService
    \/ \E c \in Callers : StopPollingService(c)
    \/ \E c \in Callers : JoinTimesOut(c)
    \/ \E c \in Callers : JoinReturns(c)
    \/ \E i \in Loops : ThreadMain(i)
    \/ \E i \in Loops : WaitForStop(i)
    \/ \E i \in Loops : StopNoticed(i)
    \/ \E i \in Loops : ThreadEnd(i)
    \/ \E t \in Tasks : TaskStart(t)
    \/ \E t \in Tasks : Connected(t)
    \/ \E t \in Tasks : ConnectFailed(t)
    \/ \E t \in Tasks : FrameRead(t)
    \/ \E t \in Tasks : ReadFailed(t)
    \/ \E t \in Tasks : Closed(t)
    \/ \E t \in Tasks : TaskCancelled(t)
    \/ \E k \in Loops : RoundDone(k)
    \/ \E k \in Loops : SleepTimeout(k)
    \/ \E k \in Loops : SleepCancelled(k)
    \/ \E p \in Procs : StopGatherDone(p)
    \/ Tick

\* The Application as it is driven by the start and stop buttons of the
\* window; the polling interval is left as it is, so that the event of the
\* service is set by the stop_polling() of a finally block only, when the
\* loop it belongs to has left its sleep for good.
SpecApp == InitLive /\ [][NextApp]_vars

\* ====================================================== frame processing
\* What poll_device does with a frame it has read, as functions of the frame,
\* of the rows of the parameter table and of device.thresholds.

\* A nullable column: <<>> is None, <<v>> is the value v.
None == <<>>
Some(v) == <<v>>
Opt(S) == {None} \cup {Some(v) : v \in S}

Params == 1..NumParams          \* Parameter.id
Values == 0..MaxValue           \* values given to check_thresholds
Bounds == {1, MaxValue - 1}     \* values of low_value and high_value

\* The rows of the threshold table.
Thresholds == [parameter_id : Params, is_enable : BOOLEAN,
               low_value : Opt(Bounds), high_value : Opt(Bounds)]

RuleLists == UNION {[1..n -> Thresholds] : n \in 0..MaxRules}

\* Comparisons that take a bound equal to the value as crossed.
WarningsIncl(th, i, value) ==
    (IF th.low_value # None /\ value <= th.low_value[1]
     THEN <<[rule |-> i, side |-> "low", value |-> value, bound |-> th.low_value[1]]>>
     ELSE <<>>)
    \o
    (IF th.high_value # None /\ value >= th.high_value[1]
     THEN <<[rule |-> i, side |-> "high", value |-> value, bound |-> th.high_value[1]]>>
     ELSE <<>>)

\* The second comparison as an elif of the first: at most one warning.
WarningsElif(th, i, value) ==
    IF th.low_value # None /\ value < th.low_value[1]
    THEN <<[rule |-> i, side |-> "low", value |-> value, bound |-> th.low_value[1]]>>
    ELSE IF th.high_value # None /\ value > th.high_value[1]
    THEN <<[rule |-> i, side |-> "high", value |-> value, bound |-> th.high_value[1]]>>
    ELSE <<>>

\* The two if statements of check_thresholds for the i-th threshold: what
\* they write to the log.
Warnings(th, i, value) ==
    (IF th.low_value # None /\ value < th.low_value[1]
     THEN <<[rule |-> i, side |-> "low", value |-> value, bound |-> th.low_value[1]]>>
     ELSE <<>>)
    \o
    (IF th.high_value # None /\ value > th.high_value[1]
     THEN <<[rule |-> i, side |-> "high", value |-> value, bound |-> th.high_value[1]]>>
     ELSE <<>>)

\* A check that stops at the first threshold that warned.
RECURSIVE check_thresholds_first(_, _, _, _)
check_thresholds_first(thresholds, parameter, value, i) ==
    IF i > Len(thresholds) THEN <<>>
    ELSE LET th == thresholds[i]
             w == IF th.parameter_id = parameter /\ th.is_enable
                  THEN Warnings(th, i, value) ELSE <<>> IN
         IF w # <<>> THEN w
         ELSE check_thresholds_first(thresholds, parameter, value, i + 1)

\* check_thresholds(device, parameter, value): the loop over
\* device.thresholds from its i-th element on; the result is the log.
RECURSIVE check_thresholds(_, _, _, _)
check_thresholds(thresholds, parameter, value, i) ==
    IF i > Len(thresholds) THEN <<>>
    ELSE LET th == thresholds[i] IN
         (IF th.parameter_id = parameter /\ th.is_enable
          THEN Warnings(th, i, value) ELSE <<>>)
         \o check_thresholds(thresholds, parameter, value, i + 1)

\* ------------------------------------------------ extract_parameter_value
\* A frame is the line read, decoded and stripped: a sequence of characters.
Letters == {"D", "R"}
Digits == {"1", "2"}
Signs == {"+", "-"}
Spaces == {" "}
Chars == Letters \cup Digits \cup Signs \cup Spaces \cup {"."}

\* str.strip() has removed the white space at both ends.
Frames ==
    {f \in UNION {[1..n -> Chars] : n \in 0..MaxFrameLen} :
        f # <<>> => (f[1] \notin Spaces /\ f[Len(f)] \notin Spaces)}

\* Parameter.command of the rows of the parameter table.
Commands == {<<"R">>, <<"D", "R">>}

\* The literal lit stands in the frame at position i.
IsAt(frame, lit, i) ==
    /\ i + Len(lit) - 1 <= Len(frame)
    /\ \A j \in 1..Len(lit) : frame[i + j - 1] = lit[j]

\* Where the longest run of characters of S that starts at p ends (the first
\* position after it); p itself if there is none.
RunEnd(frame, p, S) ==
    IF p > Len(frame) THEN p
    ELSE CHOOSE q \in p..(Len(frame) + 1) :
            /\ \A j \in p..(q - 1) : frame[j] \in S
            /\ q = Len(frame) + 1 \/ frame[q] \notin S

\* A pattern whose fraction is optional:  command \s* ([+-]? \d+ (\. \d+)?).
MatchAtOptFraction(frame, command, i) ==
    LET p1 == i + Len(command)
        p2 == RunEnd(frame, p1, Spaces)
        signed == p2 <= Len(frame) /\ frame[p2] \in Signs
        p3 == IF signed THEN p2 + 1 ELSE p2
        p4 == RunEnd(frame, p3, Digits)
        p5 == p4 + 1
        p6 == RunEnd(frame, p5, Digits)
        frac == p4 <= Len(frame) /\ frame[p4] = "." /\ p6 > p5 IN
    IF IsAt(frame, command, i) /\ p4 > p3
    THEN [ok |-> TRUE, at |-> i, group |-> p2, neg |-> signed /\ frame[p2] = "-",
          int |-> p3, dot |-> p4, end |-> IF frac THEN p6 ELSE p5]
    ELSE [ok |-> FALSE, at |-> 0, group |-> 0, neg |-> FALSE, int |-> 0, dot |-> 0,
          end |-> 0]

\* The pattern  re.escape(command) \s* ([+-]? \d+ \. \d+)  tried at position i:
\* \s* and \d+ are greedy and no shorter run can match, the sign is optional.
MatchAt(frame, command, i) ==
    LET p1 == i + Len(command)
        p2 == RunEnd(frame, p1, Spaces)
        signed == p2 <= Len(frame) /\ frame[p2] \in Signs
        p3 == IF signed THEN p2 + 1 ELSE p2
        p4 == RunEnd(frame, p3, Digits)
        p5 == p4 + 1
        p6 == RunEnd(frame, p5, Digits) IN
    IF IsAt(frame, command, i) /\ p4 > p3 /\ p4 <= Len(frame) /\ frame[p4] = "."
       /\ p6 > p5
    THEN [ok |-> TRUE, at |-> i, group |-> p2, neg |-> signed /\ frame[p2] = "-",
          int |-> p3, dot |-> p4, end |-> p6]
    ELSE [ok |-> FALSE, at |-> 0, group |-> 0, neg |-> FALSE, int |-> 0, dot |-> 0,
          end |-> 0]

NoMatch == MatchAt(<<>>, <<"R">>, 1)

\* pattern.search(frame): the match at the leftmost position that has one.
Search(frame, command) ==
    LET I == {i \in 1..Len(frame) : MatchAt(frame, command, i).ok} IN
    IF I = {} THEN NoMatch
    ELSE MatchAt(frame, command, CHOOSE i \in I : \A j \in I : i <= j)

DigitValue(c) == IF c = "1" THEN 1 ELSE 2

\* The decimal number written by the digits frame[a..b-1].
RECURSIVE Number(_, _, _)
Number(frame, a, b) ==
    IF b <= a THEN 0 ELSE Number(frame, a, b - 1) * 10 + DigitValue(frame[b - 1])

RECURSIVE Pow10(_)
Pow10(n) == IF n = 0 THEN 1 ELSE 10 * Pow10(n - 1)

\* float(match.group(1)) as the decimal m / 10^e.
Float(frame, mt) ==
    LET e == mt.end - mt.dot - 1
        m == Number(frame, mt.int, mt.dot) * Pow10(e) + Number(frame, mt.dot + 1, mt.end) IN
    [m |-> IF mt.neg THEN 0 - m ELSE m, e |-> e]

\* An extraction that forgets the special case of DR.
extract_parameter_value_plain(frame, command) ==
    LET mt == Search(frame, command) IN
    IF ~mt.ok THEN None ELSE Some(Float(frame, mt))

\* extract_parameter_value(frame, parameter): None without a match; the
\* value of command DR is divided by ten.
extract_parameter_value(frame, command) ==
    LET mt == Search(frame, command) IN
    IF ~mt.ok THEN None
    ELSE LET value == Float(frame, mt) IN
         Some(IF command = <<"D", "R">> THEN [value EXCEPT !.e = @ + 1] ELSE value)

ExtractJobs ==
    [op : {"extract"}, frame : Frames, command : Commands, done : {FALSE},
     match : {NoMatch}, value : {None}]

\* poll_device line 117: the call of extract_parameter_value for a parameter.
Extract ==
    /\ job.op = "extract" /\ ~job.done
    /\ job' = [job EXCEPT !.done = TRUE,
                          !.match = Search(job.frame, job.command),
                          !.value = extract_parameter_value(job.frame, job.command)]
    /\ UNCHANGED serviceVars

CheckJobs ==
    [op : {"check"}, thresholds : RuleLists, parameter : Params, value : Values,
     done : {FALSE}, log : {<<>>}]

\* poll_device line 133: the call of check_thresholds for a decoded value.
CheckThresholds ==
    /\ job.op = "check" /\ ~job.done
    /\ job' = [job EXCEPT !.done = TRUE,
                          !.log = check_thresholds(job.thresholds, job.parameter,
                                                   job.value, 1)]
    /\ UNCHANGED serviceVars

\* --------------------------------------------- two rounds of one parameter
\* What extract_parameter_value gives for one parameter of one device in two
\* consecutive rounds whose frames were read: a value, or None.
PollJobs ==
    [op : {"poll"}, decoded : [1..2 -> Opt(Values)], round : {0},
     checks : {<<>>}, readings : {<<>>}]

\* poll_device lines 116-136 for that parameter in the next round: a value
\* that is not None goes to parameters_data, which save_device_data writes,
\* and to check_thresholds.
ProcessReading ==
    /\ job.op = "poll" /\ job.round < 2
    /\ LET r == job.round + 1
           value == job.decoded[r] IN
       job' = [job EXCEPT
                 !.round = r,
                 !.readings = IF value # None
                              THEN Append(@, [round |-> r, value |-> value[1]]) ELSE @,
                 !.checks = IF value # None
                            THEN Append(@, [round |-> r, value |-> value[1]]) ELSE @]
    /\ UNCHANGED serviceVars

\* ------------------------------------------------- one attempt, step by step
\* poll_device for a device that connects and sends a frame: decoded[p] is
\* what extract_parameter_value gives for the p-th parameter of the list
\* get_device_parameters returns.  events is the order in which things
\* happen, data is parameters_data, saved is what save_device_data was given.
AttemptJobs ==
    [op : {"attempt"}, decoded : [Params -> Opt(Values)], pc : {"connect"},
     next : {1}, events : {<<>>}, data : {<<>>}, saved : {None}]

Event(e, p) == [e |-> e, p |-> p]

\* Line 102: open_connection returns.
OpenConnection ==
    /\ job.op = "attempt" /\ job.pc = "connect"
    /\ job' = [job EXCEPT !.pc = "read", !.events = Append(@, Event("connect", 0))]
    /\ UNCHANGED serviceVars

\* Lines 107-113: the frame is read and decoded to text, the parameters of
\* the device are fetched.
ReadFrame ==
    /\ job.op = "attempt" /\ job.pc = "read"
    /\ job' = [job EXCEPT !.pc = "process", !.events = Append(@, Event("read", 0))]
    /\ UNCHANGED serviceVars

\* A loop body that checks the thresholds of every parameter, decoded or not.
ProcessParameterAlways ==
    /\ job.op = "attempt" /\ job.pc = "process"
    /\ LET p == job.next
           value == job.decoded[p] IN
       job' = [job EXCEPT
                 !.next = p + 1,
                 !.pc = IF p = NumParams THEN "save" ELSE "process",
                 !.data = Append(@, [p |-> p, value |-> value]),
                 !.events = @ \o <<Event("decode", p), Event("check", p)>>]
    /\ UNCHANGED serviceVars

\* Lines 116-133, one pass of the loop over the parameters: the value is
\* extracted; if it is not None it is appended to parameters_data and
\* check_thresholds is called for it.
ProcessParameter ==
    /\ job.op = "attempt" /\ job.pc = "process"
    /\ LET p == job.next
           value == job.decoded[p] IN
       job' = [job EXCEPT
                 !.next = p + 1,
                 !.pc = IF p = NumParams THEN "save" ELSE "process",
                 !.data = IF value # None
                          THEN Append(@, [p |-> p, value |-> value[1]]) ELSE @,
                 !.events = @ \o <<Event("decode", p)>>
                              \o (IF value # None THEN <<Event("check", p)>> ELSE <<>>)]
    /\ UNCHANGED serviceVars

\* A poll_device that saves in its finally block, after the writer is closed.
SaveDataLate ==
    /\ job.op = "attempt" /\ job.pc = "save"
    /\ job' = [job EXCEPT !.pc = "done", !.saved = Some(job.data),
                          !.events = @ \o <<Event("close", 0), Event("save", 0)>>]
    /\ UNCHANGED serviceVars

\* Line 136: save_device_data(device, parameters_data).
SaveData ==
    /\ job.op = "attempt" /\ job.pc = "save"
    /\ job' = [job EXCEPT !.pc = "close", !.saved = Some(job.data),
                          !.events = Append(@, Event("save", 0))]
    /\ UNCHANGED serviceVars

\* Lines 142-144: the finally block closes the writer; the task returns.
CloseWriter ==
    /\ job.op = "attempt" /\ job.pc = "close"
    /\ job' = [job EXCEPT !.pc = "done", !.events = Append(@, Event("close", 0))]
    /\ UNCHANGED serviceVars

InitEval ==
    /\ InitService
    /\ \A d \in Devices : enabled[d]
    /\ \/ job \in CheckJobs
       \/ job \in ExtractJobs
       \/ job \in PollJobs
       \/ job \in AttemptJobs

NextEval ==
    \/ CheckThresholds
    \/ Extract
    \/ ProcessReading
    \/ OpenConnection
    \/ ReadFrame
    \/ ProcessParameter
    \/ SaveData
    \/ CloseWriter

SpecEval == InitEval /\ [][NextEval]_vars

\* ================================================================ properties
\* C1: run() or start_polling() called while _is_running is set returns
\* without raising, starts no second loop and no round, and leaves the flag,
\* the interval, the event and the task set as they were.
C1_StartWhileRunningIsNoOp ==
    [][(is_running /\ calls' = calls + 1 /\ last'.op \in {"run", "start_polling"})
         => (last'.res = "noop" /\ UNCHANGED <<svc, pc, rounds, task>>)]_vars

C1_Witness ==
    /\ last.op \in {"run", "start_polling"}
    /\ last.res = "noop"
    /\ \E k \in Loops : pc[k] = "round" /\ active_tasks # {}

\* C2: when stop_polling() is called on a running service whose loop is in a
\* round or in its sleep, the loop has exited by the time the call returns.
C2_StopReturnsAfterLoopExit ==
    (last.op = "stop" /\ last.res = "returned" /\ stopCtx.running /\ stopCtx.loops # {})
        => \A k \in stopCtx.loops : pc[k] = "done"

\* C3: when stop_polling() is called while several attempts are blocked in
\* the frame read, each of their connections is closed when the call returns.
C3_StopReturnsAfterAllClosed ==
    (last.op = "stop" /\ last.res = "returned" /\ Cardinality(stopCtx.readers) >= 2)
        => \A t \in stopCtx.readers : task[t].conn # "open"

\* C4: between a call of stop_polling() and the next call of a start, no
\* round is started, no poll task is created and no connection is opened.
C4_NoRoundAfterStop ==
    [][(stopReq /\ stopReq')
         => /\ rounds' = rounds
            /\ \A t \in Tasks :
                 /\ task'[t].st = "new" => task[t].st = "new"
                 /\ task'[t].conns <= task[t].conns
                 /\ task'[t].conn = "open" => task[t].conn = "open"]_vars

\* C5: stop_polling() called on a stopped service (flag clear, no loop alive)
\* returns without raising.
C5_StopWhenStoppedReturns ==
    (last.op = "stop" /\ ~stopCtx.running /\ stopCtx.alive = {})
        => last.res = "returned"

\* C6: the setter called with a value <= 0 is rejected and changes nothing:
\* the interval, the event and every sleeping loop are as before.
C6_NonPositiveIntervalRejected ==
    [][(calls' = calls + 1 /\ last'.op = "set_interval" /\ last'.arg <= 0)
         => (last'.res = "rejected"
             /\ UNCHANGED <<svc, pc, timer, waitEv, woken, rounds, task>>)]_vars

C6_Witness ==
    /\ last.op = "set_interval" /\ last.arg <= 0 /\ last.res = "rejected"
    /\ \E k \in Loops : pc[k] = "sleep" /\ timer[k] > 0 /\ woken[k] = "no"

\* C7: the setter called with a positive value raises nothing and stores the
\* value, in every state of the service.
C7_PositiveIntervalAccepted ==
    (last.op = "set_interval" /\ last.arg > 0)
        => (last.res = "ok" /\ polling_interval = last.arg)

\* C8: after the setter is called with a shorter value while the loop sleeps,
\* the next round starts no later than the new interval after the call.
C8_ShorterIntervalEndsSleep ==
    sw.st \in {"armed", "started"} => sw.t <= sw.iv

\* C9: while a round runs, the poll tasks are those of the enabled devices,
\* one each; a task opens at most one connection, and a task that failed to
\* connect has tried exactly once.
C9_OneAttemptOneConnection ==
    /\ \A k \in Loops : pc[k] = "round"
         => \A d \in Devices : (task[<<k, d>>].st # "none") <=> enabled[d]
    /\ \A t \in Tasks :
         /\ task[t].conns <= 1
         /\ (task[t].st = "failed" /\ task[t].conn = "none") => task[t].conns = 1

C9_Witness ==
    /\ \A d \in Devices : enabled[d]
    /\ \E t \in Tasks :
         /\ pc[t[1]] = "round"
         /\ task[t].st = "failed" /\ task[t].conn = "none" /\ task[t].conns = 1

\* C10: a device whose is_enable is false gets no poll task and no connection.
C10_DisabledNeverPolled ==
    \A t \in Tasks : ~enabled[t[2]] => task[t] = InitTask

C10_Witness ==
    \E k \in Loops, d \in Devices, e \in Devices :
        /\ pc[k] = "round"
        /\ ~enabled[d] /\ task[<<k, d>>].st = "none"
        /\ enabled[e] /\ task[<<k, e>>].conn = "open"

\* C11: when a round completes, every device whose is_enable is false has had
\* one notification emitted for it in that round.
C11_DisabledNotifiedEachRound ==
    \A k \in Loops, d \in Devices :
        (RoundComplete(k) /\ ~enabled[d]) => Emitted(k, d)

\* C12: when a round completes, every enabled device whose attempt ended
\* without being cancelled has had one emission, the failed attempts included.
C12_EnabledEmitsEvenOnFailure ==
    \A k \in Loops, d \in Devices :
        (RoundComplete(k) /\ enabled[d] /\ task[<<k, d>>].st \in {"done", "failed"})
            => Emitted(k, d)

\* C13: the step in which an attempt fails (the connect raises, the read
\* times out or raises, the failed attempt ends) changes neither the loops nor
\* the running flag nor any other attempt; and a round that completes with a
\* failed attempt in it goes on to its sleep like any other round.
C13_FailureNeverAbortsRound ==
    [][/\ \A t \in Tasks :
            (\/ task[t].st # "failed" /\ task'[t].st = "failed"
             \/ /\ task[t].st = "reading" /\ task'[t].st = "closing"
                /\ ~task'[t].saved /\ ~task'[t].cx)
            => /\ pc' = pc /\ is_running' = is_running /\ exc' = exc
               /\ result' = result /\ active_tasks' = active_tasks
               /\ \A u \in Tasks \ {t} : task'[u] = task[u]
       /\ \A k \in Loops :
            (/\ RoundComplete(k) /\ pc'[k] # pc[k]
             /\ \E d \in Devices : task[<<k, d>>].st = "failed"
             /\ ~cancelReq[k] /\ polling_event # 0)
            => pc'[k] = "sleep" /\ is_running' = is_running]_vars

C13_Witness ==
    \E k \in Loops, d \in Devices, e \in Devices :
        /\ RoundComplete(k) /\ is_running /\ ~cancelReq[k] /\ polling_event # 0
        /\ task[<<k, d>>].st = "failed" /\ task[<<k, d>>].conn = "closed"
        /\ task[<<k, e>>].st = "done"

\* C14: when get_active_devices() fails at the start of a round, the loop
\* that made the call is in its sleep afterwards and the service still runs.
C14_LookupFailureKeepsRunning ==
    lookup.res = "failed" => (pc[lookup.k] = "sleep" /\ is_running)

\* C15: an attempt that has ended (done, failed or cancelled) does not hold an
\* open connection: a connection is open only while its attempt is in the
\* frame read, and an attempt that got its frame ends with it closed.
C15_NoTerminatedAttemptLeavesOpen ==
    \A t \in Tasks :
        /\ Finished(St, t) => task[t].conn # "open"
        /\ task[t].conn = "open" => task[t].st = "reading"
        /\ task[t].st = "done" => task[t].conn = "closed"

C15_Witness ==
    \E t \in Tasks, u \in Tasks :
        /\ task[t].st = "cancelled" /\ task[t].cx /\ task[t].conn = "closed"
        /\ task[u].st = "failed" /\ task[u].conn = "closed"

Logged(i, side) == {n \in 1..Len(job.log) : job.log[n].rule = i /\ job.log[n].side = side}

\* The thresholds check_thresholds looks at: enabled, of the parameter checked.
Applies(th) == th.parameter_id = job.parameter /\ th.is_enable

BelowLow(th) == th.low_value # None /\ job.value < th.low_value[1]
AboveHigh(th) == th.high_value # None /\ job.value > th.high_value[1]

\* C18: after check_thresholds, every enabled threshold of the parameter has
\* one below-minimum warning in the log if its low bound is set and the value
\* is under it, and none otherwise; one above-maximum warning if its high
\* bound is set and the value is over it, and none otherwise; every warning
\* carries the value and the bound.  A value equal to a bound and an absent
\* bound give no warning for that side.
C18_WarningIffBoundCrossed ==
    (job.op = "check" /\ job.done) =>
        /\ \A i \in DOMAIN job.thresholds :
             LET th == job.thresholds[i] IN
             Applies(th) =>
                /\ Cardinality(Logged(i, "low")) = IF BelowLow(th) THEN 1 ELSE 0
                /\ Cardinality(Logged(i, "high")) = IF AboveHigh(th) THEN 1 ELSE 0
        /\ \A n \in DOMAIN job.log :
             /\ job.log[n].value = job.value
             /\ job.log[n].side \in {"low", "high"}
             /\ job.log[n].bound =
                  IF job.log[n].side = "low"
                  THEN job.thresholds[job.log[n].rule].low_value[1]
                  ELSE job.thresholds[job.log[n].rule].high_value[1]

\* low below high, the value above both: one above-maximum warning and no
\* below-minimum warning; and a threshold without bounds writes nothing.
C18_Witness ==
    /\ job.op = "check" /\ job.done
    /\ \E i \in DOMAIN job.thresholds, j \in DOMAIN job.thresholds :
         /\ Applies(job.thresholds[i])
         /\ job.thresholds[i].low_value = Some(1)
         /\ job.thresholds[i].high_value = Some(MaxValue - 1)
         /\ job.value = MaxValue
         /\ Cardinality(Logged(i, "high")) = 1 /\ Logged(i, "low") = {}
         /\ Applies(job.thresholds[j])
         /\ job.thresholds[j].low_value = None /\ job.thresholds[j].high_value = None
         /\ Logged(j, "low") \cup Logged(j, "high") = {}

\* The enabled thresholds of the parameter that the value violates.
Violated ==
    {i \in DOMAIN job.thresholds :
        Applies(job.thresholds[i])
        /\ (BelowLow(job.thresholds[i]) \/ AboveHigh(job.thresholds[i]))}

\* Those of them with both bounds crossed, which takes low_value > high_value.
BothCrossed ==
    {i \in Violated : BelowLow(job.thresholds[i]) /\ AboveHigh(job.thresholds[i])}

\* A threshold that is disabled or refers to another parameter wrote nothing.
OthersSilent ==
    \A n \in DOMAIN job.log : Applies(job.thresholds[job.log[n].rule])

\* C19 as stated: with k enabled thresholds of the parameter violated, the
\* log has k warnings, and none from a disabled threshold or from a threshold
\* of another parameter.
C19_OneWarningPerViolatedRule ==
    (job.op = "check" /\ job.done) =>
        /\ Len(job.log) = Cardinality(Violated)
        /\ OthersSilent

\* C19: every enabled threshold of the parameter is checked, whatever the
\* thresholds before it did: with k of them violated the log has one warning
\* for each crossed bound of each, which is k warnings plus one for every
\* threshold that has both bounds crossed; disabled thresholds and thresholds
\* of another parameter write nothing.
C19_OneWarningPerCrossedBound ==
    (job.op = "check" /\ job.done) =>
        /\ Len(job.log) = Cardinality(Violated) + Cardinality(BothCrossed)
        /\ \A i \in Violated : Logged(i, "low") \cup Logged(i, "high") # {}
        /\ OthersSilent

\* Two violated thresholds after one another, and a disabled threshold that
\* the value would violate: two warnings.
C19_Witness ==
    /\ job.op = "check" /\ job.done
    /\ Cardinality(Violated) = 2 /\ BothCrossed = {} /\ Len(job.log) = 2
    /\ \E i \in DOMAIN job.thresholds :
         /\ ~job.thresholds[i].is_enable
         /\ job.thresholds[i].parameter_id = job.parameter
         /\ BelowLow(job.thresholds[i])

\* The command stands somewhere in the frame.
Occurs(command, frame) == \E i \in 1..Len(frame) : IsAt(frame, command, i)

\* The number of the match is the number of the token of another parameter:
\* a longer command of the table stands right before it, the command
\* searched for being only its tail.
FromOtherToken ==
    \E o \in Commands \ {job.command} :
        /\ Len(o) > Len(job.command)
        /\ \E i \in 1..Len(job.frame) :
             LET mo == MatchAt(job.frame, o, i) IN
             mo.ok /\ mo.group = job.match.group /\ mo.at < job.match.at

\* C20: extract_parameter_value returns None for a frame in which the command
\* does not occur, and a value it returns is not the number of the token of
\* another parameter.
C20_ExtractsOnlyOwnToken ==
    (job.op = "extract" /\ job.done) =>
        /\ ~Occurs(job.command, job.frame) => job.value = None
        /\ job.value # None => ~FromOtherToken

\* The rounds in which the parameter was checked, and in which it was emitted.
CheckedIn == {job.checks[n].round : n \in DOMAIN job.checks}
EmittedIn == {job.readings[n].round : n \in DOMAIN job.readings}

\* C17: after two consecutive rounds that both decoded a value of the
\* parameter: if the values are identical, the second round made no threshold
\* check and emitted no reading for it; if they differ, both rounds did both.
C17_UnchangedValueSuppressed ==
    (job.op = "poll" /\ job.round = 2 /\ job.decoded[1] # None /\ job.decoded[2] # None)
        => IF job.decoded[1] = job.decoded[2]
           THEN CheckedIn = {1} /\ EmittedIn = {1}
           ELSE CheckedIn = {1, 2} /\ EmittedIn = {1, 2}

\* C21: when the pattern matches, extract_parameter_value returns, for the
\* command DR, the matched literal divided by ten (ten times the value is the
\* literal), and for any other command the literal itself, negative if it
\* is written with a minus sign.
C21_ScaleOnlyForDR ==
    (job.op = "extract" /\ job.done /\ job.match.ok) =>
        LET lit == Float(job.frame, job.match) IN
        /\ job.value # None
        /\ IF job.command = <<"D", "R">>
           THEN 10 * job.value[1].m * Pow10(lit.e) = lit.m * Pow10(job.value[1].e)
           ELSE job.value[1] = lit
        /\ job.match.neg => job.value[1].m < 0

\* The frame DR12.1 gives 1.21 for the command DR.
C21_Witness ==
    /\ job.op = "extract" /\ job.done
    /\ job.command = <<"D", "R">>
    /\ job.frame = <<"D", "R", "1", "2", ".", "1">>
    /\ job.value = Some([m |-> 121, e |-> 2])

\* C22: a loop that enters its sleep sleeps max(0, interval - elapsed), which
\* is never negative and is zero after a round that took the interval or
\* longer; a loop in a sleep of zero is ready to run, so that no time passes
\* before it goes on, and if nothing stopped it, it goes on by starting the
\* next round.
C22_SleepClampedAtZero ==
    [][\A k \in Loops :
         /\ (pc[k] # "sleep" /\ pc'[k] = "sleep")
              => /\ sleep_time'[k] = Max(0, polling_interval' - elapsed[k])
                 /\ timer'[k] = sleep_time'[k]
                 /\ sleep_time'[k] >= 0
                 /\ elapsed[k] >= polling_interval' => sleep_time'[k] = 0
         /\ (pc[k] = "sleep" /\ sleep_time[k] = 0)
              => /\ Ready
                 /\ (/\ is_running /\ ~cancelReq[k] /\ polling_event # 0
                     /\ (pc'[k] # "sleep" \/ lookup'.k = k))
                    => (rounds' = rounds + 1 /\ lookup'.k = k)]_vars

\* A loop in a sleep of zero seconds, after a round that took the interval.
C22_Witness ==
    \E k \in Loops :
        /\ pc[k] = "sleep" /\ sleep_time[k] = 0 /\ timer[k] = 0
        /\ is_running /\ ~cancelReq[k] /\ polling_event # 0
        /\ rounds < MaxRounds

\* The loops that are executing rounds: in a round or in the sleep between.
Polling == {k \in Loops : InLoop(k)}

\* C23: at most one loop is executing rounds at any time.
C23_AtMostOneLoop ==
    Cardinality(Polling) <= 1

\* The poll tasks of device d that have not ended.
InFlight(d) == {k \in Loops : Live(St, <<k, d>>)}

\* C24: every device has at most one poll task in flight at any time.
C24_OneTaskInFlightPerDevice ==
    \A d \in Devices : Cardinality(InFlight(d)) <= 1

\* C25: a loop of the running service that ends a round sleeps
\* max(0, interval - elapsed) with the interval as it is then, also when the
\* setter was called during the round: it enters the sleep asleep, not
\* already released by the signal of that call.
C25_SetMidRoundKeepsNextSleep ==
    [][\A k \in Loops :
         (pc[k] = "round" /\ pc'[k] = "sleep" /\ is_running')
            => /\ sleep_time'[k] = Max(0, polling_interval' - elapsed[k])
               /\ sleep_time'[k] > 0 => woken'[k] = "no"]_vars

\* The places of an event in the order of the attempt.
At(e, p) == {n \in DOMAIN job.events : job.events[n] = Event(e, p)}

\* Every occurrence of the first event is before every one of the second.
Before(e1, p1, e2, p2) == \A m \in At(e1, p1), n \in At(e2, p2) : m < n

\* Connect, then read, then the parameters; the emission after every decode
\* and every check; the close last, after the emission.
OuterOrder ==
    /\ Before("connect", 0, "read", 0)
    /\ \A p \in Params :
         /\ Before("read", 0, "decode", p)
         /\ At("decode", p) # {} => At("read", 0) # {}
         /\ Before("decode", p, "save", 0)
         /\ Before("check", p, "save", 0)
    /\ Before("save", 0, "close", 0)
    /\ At("close", 0) # {} => At("save", 0) # {}
    /\ At("save", 0) # {} => \A p \in Params : At("decode", p) # {}

\* C26 as stated: connect, read, decode, evaluate, emit, close in this order,
\* every decode of the attempt before every threshold check.
C26_AllDecodedBeforeAnyCheck ==
    job.op = "attempt" =>
        /\ OuterOrder
        /\ \A p \in Params, q \in Params : Before("decode", q, "check", p)

\* C26: connect, then read, then for every parameter its decode before its
\* own threshold check, the emission after all decodes and checks, the close
\* after the emission; a check is made only for a parameter decoded before.
C26_EachDecodedBeforeItsCheck ==
    job.op = "attempt" =>
        /\ OuterOrder
        /\ \A p \in Params :
             /\ Before("decode", p, "check", p)
             /\ At("check", p) # {} => At("decode", p) # {}

\* An attempt that has ended, with every parameter decoded and checked.
C26_Witness ==
    /\ job.op = "attempt" /\ job.pc = "done"
    /\ \A p \in Params : At("decode", p) # {} /\ At("check", p) # {}
    /\ At("save", 0) # {} /\ At("close", 0) # {}

\* C27: active_tasks holds only tasks of the round in progress: it is empty
\* whenever a loop is in its sleep, and the tasks in it are all of one loop.
C27_ActiveTasksOfCurrentRoundOnly ==
    /\ \A k \in Loops : pc[k] = "sleep" => active_tasks = {}
    /\ \A t \in active_tasks, u \in active_tasks : t[1] = u[1]

\* The parameters for which the frame of the attempt holds a value.
Extracted == {p \in Params : job.decoded[p] # None}

\* C28: a frame with values for only some parameters is no error: the attempt
\* ends with an emission, the emitted readings are exactly the parameters
\* whose value was extracted, each once and with that value, and exactly
\* those parameters had their thresholds checked, each once.
C28_DecodeMissIsDropped ==
    (job.op = "attempt" /\ job.pc \in {"close", "done"}) =>
        /\ job.saved # None
        /\ LET readings == job.saved[1] IN
             /\ {readings[n].p : n \in DOMAIN readings} = Extracted
             /\ Len(readings) = Cardinality(Extracted)
             /\ \A n \in DOMAIN readings :
                  job.decoded[readings[n].p] = Some(readings[n].value)
        /\ \A p \in Params :
             Cardinality(At("check", p)) = IF p \in Extracted THEN 1 ELSE 0

\* An attempt that has ended on a frame with a value for one parameter and
\* none for another.
C28_Witness ==
    /\ job.op = "attempt" /\ job.pc = "done"
    /\ Extracted # {} /\ Extracted # Params
    /\ Len(job.saved[1]) = Cardinality(Extracted)

\* The thresholds of the list that are enabled and of the parameter checked.
Applying == {i \in DOMAIN job.thresholds : Applies(job.thresholds[i])}

\* A threshold with low_value above high_value and the value strictly
\* between the two.
Pathological(th) ==
    /\ th.low_value # None /\ th.high_value # None
    /\ th.low_value[1] > th.high_value[1]
    /\ th.high_value[1] < job.value /\ job.value < th.low_value[1]

\* C29: when one threshold only is enabled for the parameter, its low_value
\* is above its high_value and the value lies strictly between them,
\* check_thresholds accepts the threshold and writes two warnings for it,
\* the below-minimum one and then the above-maximum one, and nothing else.
C29_PathologicalRuleWarnsTwice ==
    (job.op = "check" /\ job.done) =>
        \A i \in DOMAIN job.thresholds :
            (Applying = {i} /\ Pathological(job.thresholds[i])) =>
                job.log = <<[rule |-> i, side |-> "low", value |-> job.value,
                             bound |-> job.thresholds[i].low_value[1]],
                            [rule |-> i, side |-> "high", value |-> job.value,
                             bound |-> job.thresholds[i].high_value[1]]>>

\* A list of one enabled threshold with low_value MaxValue - 1 and high_value
\* 1, checked for a value between them: the log has the two warnings.
C29_Witness ==
    /\ job.op = "check" /\ job.done
    /\ Len(job.thresholds) = 1 /\ Applying = {1}
    /\ job.thresholds[1].low_value = Some(MaxValue - 1)
    /\ job.thresholds[1].high_value = Some(1)
    /\ Pathological(job.thresholds[1])
    /\ Len(job.log) = 2

\* A poll task that was created and has not ended.
Attempting(t) == task[t].st \in {"new", "connecting", "reading", "closing"}

AllIn(frame, a, b, S) == \A j \in a..(b - 1) : frame[j] \in S

\* Somewhere in the frame the command stands, followed by white space or
\* none, a sign or none, one digit or more, a point, one digit or more.
FollowedByDecimal(frame, command) ==
    \E i \in 1..Len(frame) :
        /\ IsAt(frame, command, i)
        /\ \E a \in (i + Len(command))..Len(frame) :
             \E b \in a..Len(frame) :
                \E c \in (b + 1)..Len(frame) :
                    /\ AllIn(frame, i + Len(command), a, Spaces)
                    /\ b = a \/ (b = a + 1 /\ frame[a] \in Signs)
                    /\ AllIn(frame, b, c, Digits)
                    /\ frame[c] = "."
                    /\ c + 1 <= Len(frame) /\ frame[c + 1] \in Digits

\* C32: extract_parameter_value returns a value exactly when the command
\* stands in the frame followed, after optional white space, by an
\* optionally signed number with digits on both sides of a decimal point;
\* a command followed only by an integer without a fraction or by other
\* text gives None.
C32_ValueOnlyForSignedDecimal ==
    (job.op = "extract" /\ job.done) =>
        (job.value # None <=> FollowedByDecimal(job.frame, job.command))

\* The frame R+21, an integer without a fraction, gives None for R.
C32_Witness ==
    /\ job.op = "extract" /\ job.done
    /\ job.command = <<"R">>
    /\ job.frame = <<"R", "+", "2", "1">>
    /\ job.value = None

\* No loop is left, the flag is clear and no poll task is in flight.
Stopped ==
    /\ ~is_running
    /\ \A k \in Loops : ~LoopAlive(k)
    /\ \A t \in Tasks : ~Attempting(t)

\* C31: a stop_polling() called from outside, with no start after it, leads
\* to the stopped service: every loop has left run(), _is_running is False
\* and no poll task is in flight.  (stopReq ~> ~stopReq \/ Stopped, written
\* in its equivalent form.)
C31_StopLeadsToStopped == []<>(~stopReq \/ Stopped)

\* C33: _is_running is True only while a loop is inside the try block of
\* run() or start_polling(), so that no start finds the flag set when there
\* is no loop.
C33_RunningOnlyWithLoop == is_running => \E k \in Loops : InLoop(k)

\* C34: when a loop leaves run(), by whatever path, _is_running is False,
\* no poll task of its round is still in flight and active_tasks is empty.
C34_LoopExitLeavesNothing ==
    [][\A k \in Loops :
         (LoopAlive(k) /\ pc'[k] = "done") =>
            /\ ~is_running'
            /\ \A d \in Devices : task'[<<k, d>>].st \notin
                                     {"new", "connecting", "reading", "closing"}
            /\ active_tasks' = {}]_vars

\* The polling threads that are alive.
AliveThreads == {i \in Loops : Alive(app, i)}

\* C36: _is_polling_active is False only when no polling thread is alive,
\* and there is never more than one polling thread alive.
C36_InactiveOnlyWithoutThread ==
    /\ ~app.is_polling_active => AliveThreads = {}
    /\ Cardinality(AliveThreads) <= 1

\* C31, for a stop requested through the Application: while the stop event
\* is set and the loop of a polling thread is running, the request is on its
\* way to that loop: stop_task is about to see the event, or has been
\* released by it, or has cancelled main_task.
C31_StopRequestReachesLoop ==
    \A i \in Loops :
        (app.stop_event.value /\ app.thread[i].st = "running" /\ InLoop(i)) =>
            \/ app.thread[i].stop_task \in {"new", "released"}
            \/ cancelReq[i]

\* No polling thread is alive and no stop_polling_service() is under way.
Quiet == AliveThreads = {} /\ \A c \in Callers : app.caller[c] = 0

\* Thread i was started again: every polling thread before it has ended, so
\* the stop that ended them has completed, and it is the one thread alive.
Restarted(i) ==
    /\ i > 1 /\ AliveThreads = {i}
    /\ \A j \in Loops : j < i => app.thread[j].st = "ended"

\* C35: the scheduler is restartable through the Application.  Once every
\* polling thread has ended and every stop_polling_service() has returned,
\* the service is stopped and the wrapper is inactive, and
\* run_polling_service() makes a new thread with the stop event cleared; when run() begins in that thread it finds the service stopped and,
\* unless the device query fails, sets it running and stays in its loop; as
\* long as no stop is requested after the start, main_task of the latest
\* thread is not cancelled; and each sleep of the new loop waits on a clear
\* event for the current interval less the time the round took.
C35_RestartResumesPolling ==
    /\ [][/\ (Quiet /\ app' # app) =>
               /\ ~is_running /\ ~app.is_polling_active
               /\ \E i \in Loops : /\ app.thread[i].st = "none"
                                   /\ app'.thread[i].st = "created"
                                   /\ app'.polling_thread = i
               /\ app'.is_polling_active
               /\ ~app'.stop_event.value
          /\ \A i \in Loops :
               (Restarted(i) /\ app.thread[i].st = "created"
                             /\ app'.thread[i].st = "running") =>
                  /\ ~is_running
                  /\ lookup'.res = "ok" =>
                        /\ is_running' /\ InLoop(i)'
                        /\ rounds' = rounds + 1
                        /\ polling_event' = i /\ ~ev'[i]
          /\ \A i \in Loops :
               (Restarted(i) /\ pc[i] # "sleep" /\ pc'[i] = "sleep") =>
                  /\ woken'[i] = "no"
                  /\ timer'[i] = Max(0, polling_interval'
                                         - (IF pc[i] = "round" THEN elapsed[i] ELSE 0))
        ]_vars
    /\ [](\A i \in Loops :
            (app.polling_thread = i /\ ~app.stop_event.value) =>
               /\ ~cancelReq[i]
               /\ app.thread[i].stop_task \notin {"released", "done"})

\* The second thread polls after the first has ended: it sleeps between two
\* rounds with the stop_task that could not wait on the event of the first.
C35_Witness ==
    /\ Restarted(2) /\ app.polling_thread = 2 /\ app.thread[2].st = "running"
    /\ is_running /\ pc[2] = "sleep" /\ timer[2] > 0 /\ woken[2] = "no"
    /\ ~app.stop_event.value
    /\ app.thread[2].stop_task = "failed"
====
